---- MODULE Spec2Model ----
(***************************************************************************)
(* State-machine model of advanced_trading_bot.py: the order-book driven   *)
(* scalping strategy (reconcile, break-even sell, sell, buy) and the       *)
(* position flags it keeps in module-level globals.                        *)
(*                                                                         *)
(* Number representation.  The program computes with Python floats; the    *)
(* model computes with exact decimals.  A price of the order book is an    *)
(* integer count of 1e-8 quote units (the grid of the "{:.8f}" formats).   *)
(* A derived decimal (a quantity, a minimum sell price) is a triple        *)
(* <<i, a, b>> standing for i + a * 1e-8 + b * 1e-16 with 0 <= a, b < 1e8. *)
(***************************************************************************)
EXTENDS Integers, Sequences, FiniteSets, TLC

(***************************************************************************)
(* Program constants (src/advanced_trading_bot.py, lines 25-31, 144-148).  *)
(* Rates are counted in units of 1e-4: 0.0011 is 11, 0.0044 is 44.         *)
(***************************************************************************)
ORDER_AMOUNT_USDT == 100
MIN_PROFIT_MARGIN == 44
COOLDOWN_PERIOD == 60
SAFETY_PROFIT_THRESHOLD == 44
TRADE_FEE_PERCENT == 11
RateDigits == 4
FormatDigits == 8
MinHistory == 30
ShortWindow == 3
LongWindow == 6

E4 == 10 ^ RateDigits
E8 == 10 ^ FormatDigits

(***************************************************************************)
(* Bounds of the model.                                                    *)
(***************************************************************************)
MaxLevels == 2
StartTime == 1000
TimeStep == 30
MaxElapsed == 60
\* Entry prices 1..MaxEntryPrice are tried on calculate_min_sell_price.
MaxEntryPrice == 12

\* Prices a depth update can carry, in 1e-8 quote units, and level sizes.
BidPrices == {2345, 2350, 2370}
AskPrices == {2380}
LevelQtys == {7}

\* Closing prices the startup fetch can return: the last six samples of the
\* history, behind a flat prefix, and the lengths the fetch can have.
HistoryTails == { <<2345, 2345, 2345, 2345, 2345, 2345>>,
                  <<2345, 2345, 2345, 2345, 2350, 2370>> }
HistoryLens == {5, 29, 30}

\* Exchange filters the startup fetch can return: minQty as a decimal, and
\* tickSize in 1e-8 units.
MinLotSizes == { <<1, 0, 0>>, <<5000000, 0, 0>> }
TickSizes == {1, 10}

\* Free base-asset balances the account query can report.
Balances == { <<0, 0, 0>>, <<0, 50000000, 0>>, <<4264392, 32409381, 0>> }

\* Replies of the exchange: to an order query, the order with its status or
\* an error object (no 'status' key); to an order placement, the order with
\* its orderId or an error object (a 'code' key).
TerminalStatuses == {"FILLED", "CANCELED", "REJECTED", "EXPIRED"}
StatusReplies == TerminalStatuses \cup {"NEW", "PARTIALLY_FILLED", "NO_STATUS"}
OrderReplies == {"ORDER", "CODE"}
OrderIds == {1}
\* Arguments of the pure functions applied on their own.
EntryPrices == (1..MaxEntryPrice) \cup BidPrices
ProbeQtys == LevelQtys \cup {9}
None == 0

(***************************************************************************)
(* Decimals.                                                               *)
(***************************************************************************)
Zero == <<0, 0, 0>>
DecOfPrice(p) == <<0, p, 0>>
DecLess(x, y) ==
    \/ x[1] < y[1]
    \/ x[1] = y[1] /\ x[2] < y[2]
    \/ x[1] = y[1] /\ x[2] = y[2] /\ x[3] < y[3]
DecLeq(x, y) == x = y \/ DecLess(x, y)

Min(a, b) == IF a < b THEN a ELSE b

BoundedSeq(S, n) == UNION { [1..k -> S] : k \in 0..n }

VARIABLES order_book, position_open, order_id, last_sell_time,
          historical_prices, buy_price, current_sell_price, ma_crossed,
          min_lot_size, tick_size, now, pc, ev, exit_pending, sells_sent,
          probe

vars == <<order_book, position_open, order_id, last_sell_time,
          historical_prices, buy_price, current_sell_price, ma_crossed,
          min_lot_size, tick_size, now, pc, ev, exit_pending, sells_sent,
          probe>>

(***************************************************************************)
(* update_order_book: each side is replaced by the update's levels, sorted *)
(* by price with Python's stable sort (bids descending, asks ascending).   *)
(***************************************************************************)
\* Variant: the sort key of the bids is not negated.
Before_Ascending(x, y, descending) == x[1] < y[1]

Before(x, y, descending) == IF descending THEN x[1] > y[1] ELSE x[1] < y[1]

InsertStable(x, s, descending) ==
    LET later == { i \in 1..Len(s) : Before(x, s[i], descending) }
        at == IF later = {} THEN Len(s) + 1
              ELSE CHOOSE i \in later : \A j \in later : i <= j
    IN  SubSeq(s, 1, at - 1) \o <<x>> \o SubSeq(s, at, Len(s))

RECURSIVE sorted(_, _)
sorted(s, descending) ==
    IF s = <<>> THEN <<>>
    ELSE InsertStable(s[Len(s)], sorted(SubSeq(s, 1, Len(s) - 1), descending),
                      descending)

update_order_book(data) ==
    [bids |-> sorted(data.bids, TRUE), asks |-> sorted(data.asks, FALSE)]

(***************************************************************************)
(* calculate_moving_averages: np.convolve(prices, ones(window), 'valid').  *)
(* The model keeps the window sums; the division by the window is done by  *)
(* cross-multiplying where two averages are compared.  When the series is  *)
(* shorter than the window numpy swaps the operands: every output is the   *)
(* sum of the whole series.                                                *)
(***************************************************************************)
RECURSIVE SumSeq(_)
SumSeq(s) == IF s = <<>> THEN 0 ELSE s[1] + SumSeq(Tail(s))

LastN(s, n) == SubSeq(s, Len(s) - Min(Len(s), n) + 1, Len(s))

calculate_moving_averages(prices, window) ==
    IF Len(prices) >= window
    THEN [k \in 1..(Len(prices) - window + 1) |->
              SumSeq(SubSeq(prices, k, k + window - 1))]
    ELSE [k \in 1..(window - Len(prices) + 1) |-> SumSeq(prices)]

Last(s) == s[Len(s)]

\* Variant: the length test asks for the short window only.
NotEnoughData_ShortWindow(prices) == Len(prices) < ShortWindow

\* len(historical_prices) < 30
NotEnoughData(prices) == Len(prices) < MinHistory

\* ma3[-1] <= ma6[-1] over historical_prices[-30:]
NotCrossedUp(prices) ==
    LET recent == LastN(prices, MinHistory)
        ma3 == calculate_moving_averages(recent, ShortWindow)
        ma6 == calculate_moving_averages(recent, LongWindow)
    IN  Last(ma3) * LongWindow <= Last(ma6) * ShortWindow

(***************************************************************************)
(* calculate_fees / calculate_min_sell_price.  The only use of a fee is    *)
(* fee / amount, so calculate_fees returns the fee per unit of amount, in  *)
(* units of 1e-16, of a price given in units of 1e-12.  Dividing by an     *)
(* amount of zero raises ZeroDivisionError.                                *)
(***************************************************************************)
\* Variant: no fee is added.
calculate_fees_None(price) == 0

calculate_fees(price) == price * TRADE_FEE_PERCENT

ZeroDivisionError == <<>>

calculate_min_sell_price(price, amount) ==
    LET buy_fee == calculate_fees(price * E4)
        sell_fee == calculate_fees(price * (E4 + MIN_PROFIT_MARGIN))
        excess == buy_fee + sell_fee + price * MIN_PROFIT_MARGIN * E4
    IN  IF amount = Zero THEN ZeroDivisionError
        ELSE <<0, price + excess \div E8, excess % E8>>

(***************************************************************************)
(* round_quantity(quantity, step_size) = binance round_step_size: the      *)
(* value less its remainder modulo the step (a count of 1e-8).             *)
(***************************************************************************)
round_quantity(quantity, step_size) ==
    LET rem == ((quantity[1] % step_size) * (E8 % step_size) + quantity[2])
                   % step_size
    IN  IF quantity[2] >= rem
        THEN <<quantity[1], quantity[2] - rem, 0>>
        ELSE <<quantity[1] - 1, quantity[2] - rem + E8, 0>>

\* "{:.8f}".format(x): the nearest multiple of 1e-8, ties to even.
Format8(x) ==
    LET up == \/ 2 * x[3] > E8
              \/ 2 * x[3] = E8 /\ x[2] % 2 = 1
    IN  IF ~up THEN <<x[1], x[2], 0>>
        ELSE IF x[2] + 1 = E8 THEN <<x[1] + 1, 0, 0>>
        ELSE <<x[1], x[2] + 1, 0>>

\* ORDER_AMOUNT_USDT / buy_price, by long division (the price counts 1e-8).
BuyQuantity(price) ==
    LET n0 == ORDER_AMOUNT_USDT * (E8 % price)
        r0 == n0 % price
        d1 == (r0 * E4) \div price
        r1 == (r0 * E4) % price
        d2 == (r1 * E4) \div price
        r2 == (r1 * E4) % price
        d3 == (r2 * E4) \div price
        r3 == (r2 * E4) % price
        d4 == (r3 * E4) \div price
    IN  <<ORDER_AMOUNT_USDT * (E8 \div price) + n0 \div price,
          d1 * E4 + d2, d3 * E4 + d4>>

(***************************************************************************)
(* State.  ev is the outcome of the step just taken (the order request it  *)
(* sent, the status it read, the exception it raised); exit_pending is a   *)
(* history variable: an accepted buy has not yet been followed by an       *)
(* accepted sell; sells_sent counts the sell requests of the current       *)
(* cycle.  probe holds the arguments and results of the pure functions     *)
(* when they are applied on their own (PureSpec); the strategy leaves it   *)
(* alone.                                                                  *)
(***************************************************************************)
NoEvent == [kind |-> "none", step |-> "none", price |-> Zero,
            quantity |-> Zero, accepted |-> FALSE, status |-> "none"]
Exception(at) == [NoEvent EXCEPT !.kind = "exception", !.step = at]
OrderEvent(side, at, price, quantity, accepted) ==
    [NoEvent EXCEPT !.kind = side, !.step = at, !.price = price,
                    !.quantity = quantity, !.accepted = accepted]
Invalid(at) == [NoEvent EXCEPT !.kind = "invalid", !.step = at]
Empty(at) == [NoEvent EXCEPT !.kind = "empty", !.step = at]
StatusEvent(status) ==
    [NoEvent EXCEPT !.kind = "status", !.step = "check_open_order",
                    !.status = status]

NoProbe == [op |-> "none", applied |-> 0, entry |-> 0, higher |-> 0,
            amount |-> Zero, result |-> Zero, higher_result |-> Zero,
            data |-> [bids |-> <<>>, asks |-> <<>>],
            before |-> [bids |-> <<>>, asks |-> <<>>]]

History(n, tail) ==
    [k \in 1..n |-> IF k - (n - Len(tail)) < 1 THEN tail[1]
                    ELSE tail[k - (n - Len(tail))]]

\* Module-level globals (lines 37-48) and the startup fetches of main
\* (lines 312-314), up to the first wait for a stream message.
Init ==
    /\ order_book = [bids |-> <<>>, asks |-> <<>>]
    /\ position_open = FALSE
    /\ order_id = None
    /\ last_sell_time = 0
    /\ \E n \in HistoryLens, tail \in HistoryTails :
           historical_prices = History(n, tail)
    /\ buy_price = 0
    /\ current_sell_price = 0
    /\ ma_crossed = FALSE
    /\ min_lot_size \in MinLotSizes
    /\ tick_size \in TickSizes
    /\ now = StartTime
    /\ pc = "listen"
    /\ ev = NoEvent
    /\ exit_pending = FALSE
    /\ sells_sent = 0
    /\ probe = NoProbe

\* What a step leaves of the position globals, and where the cycle goes.
Step(open, oid, last_sell, price, sell_price, crossed, next, event, pending) ==
    /\ position_open' = open
    /\ order_id' = oid
    /\ last_sell_time' = last_sell
    /\ buy_price' = price
    /\ current_sell_price' = sell_price
    /\ ma_crossed' = crossed
    /\ pc' = next
    /\ ev' = event
    /\ exit_pending' = pending
    /\ sells_sent' = IF event.kind = "sell" THEN sells_sent + 1 ELSE sells_sent
    /\ UNCHANGED <<order_book, historical_prices, min_lot_size, tick_size, now,
                   probe>>

Return(next) ==
    Step(position_open, order_id, last_sell_time, buy_price,
         current_sell_price, ma_crossed, next, NoEvent, exit_pending)

\* A return on a failed validation (a quantity below the minimum lot size,
\* an empty side of the order book, a margin too small).
ReturnInvalid(at, next) ==
    Step(position_open, order_id, last_sell_time, buy_price,
         current_sell_price, ma_crossed, next, Invalid(at), exit_pending)

\* A return of place_sell_order on a balance that is not positive.
ReturnEmpty(at, next) ==
    Step(position_open, order_id, last_sell_time, buy_price,
         current_sell_price, ma_crossed, next, Empty(at), exit_pending)

\* An exception leaves the coroutine chain up to asyncio.run: no handler.
Raise(at) ==
    Step(position_open, order_id, last_sell_time, buy_price,
         current_sell_price, ma_crossed, "crashed", Exception(at), exit_pending)

(***************************************************************************)
(* listen_to_depth_stream / handle_socket_msg: the next message is taken   *)
(* only when the previous call of handle_socket_msg has returned.          *)
(***************************************************************************)
\* Variant: every message starts a task of its own, so a message is handled
\* while the previous cycle is still suspended.
Listening_Always == pc # "crashed"

Listening == pc = "listen"

\* Wall-clock time (time.time()) passes while the loop waits for a message.
Elapse(t) == IF t < StartTime + MaxElapsed THEN {t, t + TimeStep} ELSE {t}

\* The depth messages of the stream, and the books update_order_book makes
\* of them.
DepthUpdates ==
    [bids : BoundedSeq(BidPrices \X LevelQtys, MaxLevels),
     asks : BoundedSeq(AskPrices \X LevelQtys, MaxLevels)]

UpdatedBooks == { update_order_book(data) : data \in DepthUpdates }

handle_socket_msg ==
    /\ Listening
    /\ order_book' \in UpdatedBooks
    /\ now' \in Elapse(now)
    /\ pc' = "check_open_order"
    /\ ev' = NoEvent
    /\ sells_sent' = 0
    /\ UNCHANGED <<position_open, order_id, last_sell_time, historical_prices,
                   buy_price, current_sell_price, ma_crossed, min_lot_size,
                   tick_size, exit_pending, probe>>

(***************************************************************************)
(* check_open_order (lines 247-266).                                       *)
(***************************************************************************)
\* Variant: FILLED is not in the list of final statuses.
IsTerminal_Unfilled(status) == status \in TerminalStatuses \ {"FILLED"}

\* order['status'] in ['FILLED', 'CANCELED', 'REJECTED', 'EXPIRED']
IsTerminal(status) == status \in TerminalStatuses

\* Variant: the early return on a missing order id is left out.
Tracked_Always(oid) == TRUE

\* if not order_id: return
Tracked(oid) == oid # None

check_open_order ==
    /\ pc = "check_open_order"
    /\ IF ~Tracked(order_id)
       THEN Return("check_break_even_sell_order")
       ELSE \E reply \in StatusReplies :
              IF IsTerminal(reply)
              THEN Step(FALSE, None, last_sell_time, buy_price,
                        current_sell_price, ma_crossed,
                        "check_break_even_sell_order", StatusEvent(reply),
                        exit_pending)
              ELSE Step(TRUE, order_id, last_sell_time, buy_price,
                        current_sell_price, ma_crossed,
                        "check_break_even_sell_order", StatusEvent(reply),
                        exit_pending)

(***************************************************************************)
(* place_sell_order (lines 196-245), called by the break-even check with   *)
(* a price and by the strategy without one.                                *)
(***************************************************************************)
\* best_bid > min_sell_price, then round_quantity(sell_price, tick_size)
OpportunisticPrice(best_bid, min_sell_price, step_size) ==
    round_quantity(IF DecLess(min_sell_price, DecOfPrice(best_bid))
                   THEN DecOfPrice(best_bid) ELSE min_sell_price,
                   step_size)

\* elif sell_price < min_sell_price: sell_price = min_sell_price
GivenPrice(sell_price, min_sell_price) ==
    IF DecLess(sell_price, min_sell_price) THEN min_sell_price ELSE sell_price

\* 'code' in order
Rejected(reply) == reply = "CODE"

\* Variant: the test against the minimum lot size is left out.
BelowMinLot_Never(quantity, min_lot) == FALSE

\* float(quantity) < min_lot_size
BelowMinLot(quantity, min_lot) == DecLess(quantity, min_lot)

\* Variant: an accepted sell leaves the position flags for the status check.
SellAccepted_KeepOpen(at, price, quantity, next) ==
    Step(position_open, order_id, last_sell_time, buy_price,
         current_sell_price, ma_crossed, next,
         OrderEvent("sell", at, price, quantity, TRUE), exit_pending)

\* Variant: an accepted sell ends the cycle.
SellAccepted_EndsCycle(at, price, quantity, next) ==
    Step(FALSE, None, now, buy_price, current_sell_price, FALSE, "listen",
         OrderEvent("sell", at, price, quantity, TRUE), FALSE)

\* Variant: an accepted sell keeps the order id.
SellAccepted_KeepsOrderId(at, price, quantity, next) ==
    Step(FALSE, order_id, now, buy_price, current_sell_price, FALSE, next,
         OrderEvent("sell", at, price, quantity, TRUE), FALSE)

SellAccepted(at, price, quantity, next) ==
    Step(FALSE, None, now, buy_price, current_sell_price, FALSE, next,
         OrderEvent("sell", at, price, quantity, TRUE), FALSE)

SellRejected(at, price, quantity, next) ==
    Step(position_open, order_id, last_sell_time, buy_price,
         current_sell_price, ma_crossed, next,
         OrderEvent("sell", at, price, quantity, FALSE), exit_pending)

PlaceSell(at, given, sell_price, next) ==
    \E balance \in Balances :
       LET quantity == Format8(round_quantity(balance, tick_size)) IN
       IF ~DecLess(Zero, balance) THEN ReturnEmpty(at, next)
       ELSE IF BelowMinLot(quantity, min_lot_size) THEN ReturnInvalid(at, next)
       ELSE IF order_book.bids = <<>> THEN ReturnInvalid(at, next)
       ELSE LET best_bid == order_book.bids[1][1]
                min_sell_price == calculate_min_sell_price(buy_price, quantity)
            IN  IF min_sell_price = ZeroDivisionError THEN Raise(at)
                ELSE LET price ==
                           Format8(IF given
                                   THEN GivenPrice(sell_price, min_sell_price)
                                   ELSE OpportunisticPrice(best_bid,
                                            min_sell_price, tick_size))
                     IN  \E reply \in OrderReplies :
                            IF Rejected(reply)
                            THEN SellRejected(at, price, quantity, next)
                            ELSE SellAccepted(at, price, quantity, next)

place_sell_order ==
    /\ pc = "place_sell_order"
    /\ PlaceSell("place_sell_order", FALSE, Zero, "place_buy_order")

(***************************************************************************)
(* check_break_even_sell_order (lines 268-283).                            *)
(***************************************************************************)
\* current_profit <= SAFETY_PROFIT_THRESHOLD, current_profit being
\* ((best_bid - buy_price) / buy_price) * 100
ProfitDiminishing(best_bid, price) ==
    (best_bid - price) * 100 * E4 <= SAFETY_PROFIT_THRESHOLD * price

check_break_even_sell_order ==
    /\ pc = "check_break_even_sell_order"
    /\ IF ~position_open \/ buy_price = 0 THEN Return("place_sell_order")
       ELSE IF order_book.bids = <<>> THEN Return("place_sell_order")
       ELSE \E balance \in Balances :
              LET best_bid == order_book.bids[1][1]
                  min_sell_price == calculate_min_sell_price(buy_price, balance)
              IN  IF min_sell_price = ZeroDivisionError
                  THEN Raise("check_break_even_sell_order")
                  ELSE IF ProfitDiminishing(best_bid, buy_price)
                  THEN PlaceSell("check_break_even_sell_order", TRUE,
                                 min_sell_price, "place_sell_order")
                  ELSE Return("place_sell_order")

(***************************************************************************)
(* place_buy_order (lines 136-194).                                        *)
(***************************************************************************)
\* Variant: the cooldown test is left out.
SkipBuy_NoCooldown(open, current_time, last_sell, crossed) ==
    open \/ crossed

\* Variant: the ma_crossed test is left out.
SkipBuy_NoCrossGate(open, current_time, last_sell, crossed) ==
    open \/ (current_time - last_sell < COOLDOWN_PERIOD)

\* position_open or (current_time - last_sell_time < COOLDOWN_PERIOD) or ma_crossed
SkipBuy(open, current_time, last_sell, crossed) ==
    open \/ (current_time - last_sell < COOLDOWN_PERIOD) \/ crossed

\* potential_profit < MIN_PROFIT_MARGIN * 100, potential_profit being
\* ((min_sell_price - buy_price) / buy_price) * 100
ProfitTooSmall(price, min_sell_price) ==
    (min_sell_price[2] - price) * E8 + min_sell_price[3]
        < MIN_PROFIT_MARGIN * price * E4

BuyStep(open, oid, price, sell_price, crossed, next, event, pending) ==
    Step(open, oid, last_sell_time, price, sell_price, crossed, next, event,
         pending)

place_buy_order ==
    /\ pc = "place_buy_order"
    /\ IF SkipBuy(position_open, now, last_sell_time, ma_crossed)
       THEN Return("listen")
       ELSE IF NotEnoughData(historical_prices) THEN Return("listen")
       ELSE IF NotCrossedUp(historical_prices) THEN Return("listen")
       ELSE IF order_book.bids = <<>> \/ order_book.asks = <<>>
       THEN ReturnInvalid("place_buy_order", "listen")
       ELSE LET best_bid == order_book.bids[1][1]
                min_sell_price ==
                    calculate_min_sell_price(best_bid, BuyQuantity(best_bid))
                quantity ==
                    Format8(round_quantity(BuyQuantity(best_bid), tick_size))
                price == Format8(DecOfPrice(best_bid))
                Skipped ==
                    BuyStep(position_open, order_id, best_bid,
                            current_sell_price, ma_crossed, "listen",
                            Invalid("place_buy_order"), exit_pending)
            IN  IF ProfitTooSmall(best_bid, min_sell_price) THEN Skipped
                ELSE IF BelowMinLot(quantity, min_lot_size) THEN Skipped
                ELSE \E reply \in OrderReplies, oid \in OrderIds :
                       IF Rejected(reply)
                       THEN BuyStep(position_open, order_id, best_bid,
                                    current_sell_price, ma_crossed, "listen",
                                    OrderEvent("buy", "place_buy_order",
                                               price, quantity, FALSE),
                                    exit_pending)
                       ELSE BuyStep(TRUE, oid, best_bid,
                                    order_book.asks[1][1], TRUE, "listen",
                                    OrderEvent("buy", "place_buy_order",
                                               price, quantity, TRUE),
                                    TRUE)

\* scalping_strategy (lines 285-290) is the order of the four steps.
Next ==
    \/ handle_socket_msg
    \/ check_open_order
    \/ check_break_even_sell_order
    \/ place_sell_order
    \/ place_buy_order

Spec == Init /\ [][Next]_vars

(***************************************************************************)
(* The pure functions applied on their own.  calculate_min_sell_price      *)
(* (lines 125-130) is applied to two entry prices and one amount;          *)
(* update_order_book (lines 66-71) is applied twice to the same update,    *)
(* starting from a book left by an earlier update.                         *)
(***************************************************************************)
ProbeLevels(prices) == BoundedSeq(prices \X ProbeQtys, MaxLevels)

ProbeInit ==
    /\ order_book = [bids |-> <<>>, asks |-> <<>>]
    /\ position_open = FALSE
    /\ order_id = None
    /\ last_sell_time = 0
    /\ historical_prices = <<>>
    /\ buy_price = 0
    /\ current_sell_price = 0
    /\ ma_crossed = FALSE
    /\ min_lot_size = Zero
    /\ tick_size = 1
    /\ now = StartTime
    /\ pc = "probe"
    /\ ev = NoEvent
    /\ exit_pending = FALSE
    /\ sells_sent = 0
    /\ \/ \E entry \in EntryPrices, higher \in EntryPrices,
             amount \in Balances \ {Zero} :
              probe = [NoProbe EXCEPT !.op = "calculate_min_sell_price",
                                      !.entry = entry, !.higher = higher,
                                      !.amount = amount]
       \/ \E bids \in ProbeLevels(BidPrices), asks \in ProbeLevels(AskPrices) :
              probe = [NoProbe EXCEPT !.op = "update_order_book",
                                      !.data = [bids |-> bids, asks |-> asks]]

ProbeFrame ==
    UNCHANGED <<position_open, order_id, last_sell_time, historical_prices,
                buy_price, current_sell_price, ma_crossed, min_lot_size,
                tick_size, now, pc, ev, exit_pending, sells_sent>>

apply_calculate_min_sell_price ==
    /\ pc = "probe"
    /\ probe.op = "calculate_min_sell_price"
    /\ probe.applied = 0
    /\ probe' = [probe EXCEPT
                    !.applied = 1,
                    !.result = calculate_min_sell_price(probe.entry,
                                                        probe.amount),
                    !.higher_result = calculate_min_sell_price(probe.higher,
                                                               probe.amount)]
    /\ UNCHANGED order_book
    /\ ProbeFrame

apply_update_order_book ==
    /\ pc = "probe"
    /\ probe.op = "update_order_book"
    /\ probe.applied < 2
    /\ order_book' = update_order_book(probe.data)
    /\ probe' = [probe EXCEPT !.applied = probe.applied + 1,
                              !.before = order_book]
    /\ ProbeFrame

ProbeNext == apply_calculate_min_sell_price \/ apply_update_order_book

PureSpec == ProbeInit /\ [][ProbeNext]_vars

(***************************************************************************)
(* The stream keeps delivering messages and asyncio runs the awaited       *)
(* coroutine to its end (lines 301-307): a step that can be taken is       *)
(* taken.                                                                  *)
(***************************************************************************)
\* The startups after which a buy can be sent at all: enough history with
\* the short average above the long one, and a minimum lot that 100 USDT buy.
CanBuy ==
    /\ ~NotEnoughData(historical_prices)
    /\ ~NotCrossedUp(historical_prices)
    /\ \E price \in BidPrices : ~BelowMinLot(BuyQuantity(price), min_lot_size)

FairInit == Init /\ CanBuy

FairSpec == FairInit /\ [][Next]_vars /\ WF_vars(Next)

(***************************************************************************)
(* Properties.                                                             *)
(***************************************************************************)
BuySubmitted(e) == e.kind = "buy"
SellSubmitted(e) == e.kind = "sell"
SafetySell(e) == SellSubmitted(e) /\ e.step = "check_break_even_sell_order"
FailedAttempt(e) ==
    \/ e.kind = "invalid"
    \/ (BuySubmitted(e) \/ SellSubmitted(e)) /\ ~e.accepted
BothSides == order_book.bids # <<>> /\ order_book.asks # <<>>

\* C1: a step submits a buy only from a state in which position_open is
\* false, at least COOLDOWN_PERIOD seconds have passed since last_sell_time
\* and ma_crossed is false.
C1_BuyGate ==
    [][BuySubmitted(ev') =>
          /\ ~position_open
          /\ now - last_sell_time >= COOLDOWN_PERIOD
          /\ ~ma_crossed]_vars

\* A buy submitted after an earlier exit was stamped.
C1_Witness == BuySubmitted(ev) /\ last_sell_time > 0

\* C2: after an accepted buy no buy is submitted before a sell has been
\* accepted: a step submits a buy only when no accepted buy is waiting for
\* its exit; ma_crossed is set by an accepted buy and reset only by an
\* accepted sell.
C2_NoSecondBuy ==
    [][/\ BuySubmitted(ev') => ~exit_pending
       /\ BuySubmitted(ev') /\ ev'.accepted => ma_crossed'
       /\ ma_crossed /\ ~ma_crossed' => SellSubmitted(ev') /\ ev'.accepted]_vars

\* After an accepted buy whose order ended without a sell, a cycle has run
\* its buy step with the crossover up, the cooldown over and both sides of
\* the book present, and has submitted nothing.
C2_Witness ==
    /\ exit_pending /\ ~position_open /\ ma_crossed
    /\ pc = "listen" /\ ev.kind = "none"
    /\ ~NotEnoughData(historical_prices) /\ ~NotCrossedUp(historical_prices)
    /\ BothSides
    /\ now - last_sell_time >= COOLDOWN_PERIOD

\* C3: the price of every sell order sent by the break-even step is at
\* least calculate_min_sell_price(buy_price, quantity).
C3_SafetyPriceAtLeastMin ==
    SafetySell(ev) =>
        DecLeq(calculate_min_sell_price(buy_price, ev.quantity), ev.price)

\* C4: position_open implies buy_price > 0.
C4_OpenHasEntryPrice == position_open => buy_price > 0

\* The status check has found the tracked order live: the position is open.
C4_Witness == position_open /\ ev.kind = "status" /\ buy_price > 0

\* C5: buy_price is zero whenever position_open is false.
C5_FlatHasNoEntryPrice == ~position_open => buy_price = 0

\* C6: a buy or sell attempt that the exchange rejects or that fails a
\* validation leaves position_open, order_id, buy_price, last_sell_time and
\* ma_crossed as they were.
C6_FailedAttemptKeepsState ==
    [][FailedAttempt(ev') =>
          UNCHANGED <<position_open, order_id, buy_price, last_sell_time,
                      ma_crossed>>]_vars

\* C7: no failure inside a decision cycle ends the stream-processing loop.
C7_LoopNeverEnds == pc # "crashed"

\* C8 as stated: position_open is cleared only by a status confirmation,
\* never by the acceptance of a sell submission.
C8_ClosedOnlyByStatus ==
    [][position_open /\ ~position_open' => ev'.kind = "status"]_vars

\* C8 as amended: position_open is cleared either by the status check that
\* reads a terminal status of the tracked order (ma_crossed and
\* last_sell_time untouched) or by the acceptance of a sell submission,
\* which at that moment resets ma_crossed, clears order_id and stamps
\* last_sell_time; after every accepted sell submission position_open is
\* false.
C8_ClosedByStatusOrAcceptedSell ==
    [][/\ position_open /\ ~position_open' =>
            \/ /\ ev'.kind = "status" /\ IsTerminal(ev'.status)
               /\ UNCHANGED <<ma_crossed, last_sell_time>>
            \/ /\ SellSubmitted(ev') /\ ev'.accepted
               /\ ~ma_crossed' /\ order_id' = None /\ last_sell_time' = now
       /\ SellSubmitted(ev') /\ ev'.accepted => ~position_open']_vars

\* The break-even step, which runs only with an open position, had its sell
\* accepted: the position is closed and the exit stamped at once.
C8_Witness ==
    /\ SafetySell(ev) /\ ev.accepted
    /\ ~position_open /\ ~ma_crossed /\ last_sell_time = now

\* C9: the order book changes only in the step that takes a message, which
\* is enabled only between cycles and changes no position flag; the steps of
\* a cycle follow in the order reconcile, break-even sell, sell, buy.
NextStep(p) ==
    CASE p = "listen" -> "check_open_order"
      [] p = "check_open_order" -> "check_break_even_sell_order"
      [] p = "check_break_even_sell_order" -> "place_sell_order"
      [] p = "place_sell_order" -> "place_buy_order"
      [] p = "place_buy_order" -> "listen"
      [] OTHER -> "crashed"

C9_CyclesDoNotOverlap ==
    [][/\ pc' \in {NextStep(pc), "crashed"}
       /\ order_book' # order_book => pc = "listen"
       /\ pc # "listen" => order_book' = order_book /\ now' = now
       /\ pc = "listen" =>
             UNCHANGED <<position_open, order_id, buy_price, last_sell_time,
                         ma_crossed>>]_vars

\* A cycle has run to its end and placed a buy; the next message has been
\* applied and its cycle is about to start.
C9_Witness ==
    /\ pc = "check_open_order" /\ exit_pending /\ order_book.bids # <<>>

\* C10: a buy is submitted only when the history holds at least LongWindow
\* samples and the mean of the last ShortWindow samples is greater than the
\* mean of the last LongWindow samples.
C10_BuyNeedsCrossover ==
    BuySubmitted(ev) =>
        /\ Len(historical_prices) >= LongWindow
        /\ SumSeq(LastN(historical_prices, ShortWindow)) * LongWindow
               > SumSeq(LastN(historical_prices, LongWindow)) * ShortWindow

C10_Witness == BuySubmitted(ev) /\ ev.accepted

\* C11: for every positive entry price and every positive amount the
\* minimum sell price is strictly greater than entry * (1 + MIN_PROFIT_MARGIN),
\* and of two entry prices with the same amount the higher one has the
\* strictly higher minimum sell price.
WithMargin(price) ==
    LET margin == price * MIN_PROFIT_MARGIN * E4
    IN  <<0, price + margin \div E8, margin % E8>>
C11_MinSellAboveMargin ==
    probe.op = "calculate_min_sell_price" /\ probe.applied = 1
    => /\ DecLess(WithMargin(probe.entry), probe.result)
       /\ probe.entry < probe.higher
            => DecLess(probe.result, probe.higher_result)
C11_Witness ==
    /\ probe.op = "calculate_min_sell_price" /\ probe.applied = 1
    /\ probe.entry = 2345 /\ probe.higher = 2350
    /\ probe.result = <<0, 2360, 48834980>>

\* C12: after update_order_book the book holds exactly the levels of the
\* update, whatever it held before: the bids in descending and the asks in
\* ascending order of price, so that the first bid is the highest bid and
\* the first ask the lowest ask of the update; a second application of the
\* same update leaves both unchanged.
LevelCount(s, x) == Cardinality({ i \in 1..Len(s) : s[i] = x })
SameLevels(s, t) ==
    /\ Len(s) = Len(t)
    /\ \A i \in 1..Len(s) : LevelCount(s, s[i]) = LevelCount(t, s[i])
Descending(s) == \A i \in 1..(Len(s) - 1) : s[i][1] >= s[i + 1][1]
Ascending(s) == \A i \in 1..(Len(s) - 1) : s[i][1] <= s[i + 1][1]
Best(side) == IF side = <<>> THEN None ELSE side[1][1]
TerminalRead(e) == e.kind = "status" /\ e.status \in TerminalStatuses
C13_TerminalKeepsOpenFlag ==
    [][TerminalRead(ev')
         => order_id' = None /\ position_open' = position_open]_vars
\* C13 (amended): a final status read by check_open_order clears order_id
\* and position_open together; a position open before the read is flat
\* after it.
C13_TerminalClearsBoth ==
    TerminalRead(ev) => order_id = None /\ ~position_open
C13_Witness ==
    /\ TerminalRead(ev) /\ ev.status = "FILLED"
    /\ exit_pending /\ ~position_open /\ order_id = None

\* C14 (as claimed): the opportunistic step sends a sell order only from a
\* state in which position_open is true.
OpportunisticSell(e) == SellSubmitted(e) /\ e.step = "place_sell_order"
C14_SellOnlyWhenOpen ==
    [][OpportunisticSell(ev') => position_open]_vars
\* C14 (amended): the opportunistic step sends a sell order only when the
\* bid side is not empty and the rounded balance is positive and not below
\* min_lot_size; position_open is no condition of it.
C14_SellOnlyOnBalance ==
    OpportunisticSell(ev)
    => /\ order_book.bids # <<>>
       /\ DecLess(Zero, ev.quantity)
       /\ DecLeq(min_lot_size, ev.quantity)
C14_Witness ==
    /\ OpportunisticSell(ev)
    /\ buy_price = 0 /\ order_id = None /\ ~exit_pending
    /\ last_sell_time = 0

\* C15: whenever the sell of the break-even step has been accepted, the
\* cycle goes on with the opportunistic step, and that step can send a
\* sell order as well: one cycle can hold two sell submissions.
C15_SecondSellNotSuppressed ==
    SafetySell(ev) /\ ev.accepted
    => /\ pc = "place_sell_order"
       /\ sells_sent = 1
       /\ ENABLED (place_sell_order /\ OpportunisticSell(ev')
                     /\ sells_sent' = 2)
C15_Witness ==
    /\ OpportunisticSell(ev) /\ sells_sent = 2
    /\ last_sell_time = now /\ pc = "place_buy_order"

\* C16: when the break-even step starts with a position open, a bid side
\* that is not empty and a relative profit (best_bid - buy_price) /
\* buy_price of at most SAFETY_PROFIT_THRESHOLD (0.0044, both as ratios),
\* it goes on to the sell: it does not return as if the profit were high
\* enough.  (What the balance then allows is the event of the step; the
\* price of the order is C3.)
WithinSafetyThreshold(best_bid, price) ==
    (best_bid - price) * E4 <= SAFETY_PROFIT_THRESHOLD * price
C16_SafetySellWithinThreshold ==
    [][(/\ pc = "check_break_even_sell_order"
        /\ position_open /\ buy_price > 0
        /\ order_book.bids # <<>>
        /\ WithinSafetyThreshold(Best(order_book.bids), buy_price))
         => ev'.kind # "none"]_vars

\* C17: the quantity of every buy order is ORDER_AMOUNT_USDT / best_bid
\* rounded down to a multiple of the lot size of the LOT_SIZE filter (not
\* of the tick size of the PRICE_FILTER), and it is not below that lot size.
RoundDownToLot(quantity, lot) ==
    <<quantity[1] - (quantity[1] % lot[1]), 0, 0>>
C17_BuyQuantityOnLotGrid ==
    BuySubmitted(ev)
    => /\ ev.quantity = RoundDownToLot(BuyQuantity(ev.price[2]), min_lot_size)
       /\ DecLeq(min_lot_size, ev.quantity)

\* C18: every sell order of the opportunistic step carries a price that is
\* not below calculate_min_sell_price of the entry price: rounding
\* max(best_bid, min_sell_price) to the tick does not go below it.  (The
\* break-even step is C3.)
C18_OpportunisticPriceAtLeastMin ==
    OpportunisticSell(ev)
    => DecLeq(calculate_min_sell_price(buy_price, ev.quantity), ev.price)

\* C19: when the tracked buy order is read as ended without a fill and
\* every later balance read is zero, ma_crossed is reset at some later
\* point (so that a later cycle can buy again).
UnfilledEnd ==
    /\ ev.kind = "status"
    /\ ev.status \in TerminalStatuses \ {"FILLED"}
    /\ ma_crossed
BalanceNotZero == ev.step = "place_sell_order" /\ ev.kind # "empty"
C19_CrossoverEventuallyReset == UnfilledEnd ~> (~ma_crossed \/ BalanceNotZero)

\* C20: after every step position_open is true exactly when an order id is
\* tracked.
C20_OpenIffTracked == position_open <=> order_id # None
C20_Witness ==
    /\ ev.kind = "status" /\ ev.status = "CANCELED"
    /\ ~position_open /\ order_id = None /\ buy_price > 0

====
